---- MODULE Spec2Model ----
(***************************************************************************)
(* The generation/retry engine of venice (src/main.go): the main loop of   *)
(* main(), handleResponse, storeImageResult, generateFilenameAndLogDetail, *)
(* enhancePrompt, generateCfgScale and displayError.                       *)
(*                                                                         *)
(* Time is counted in whole seconds; elapsed times saturate at ClockCap.   *)
(* Guidance values are counted in hundredths (7.5 is 750).                 *)
(* Strings are TLA+ strings; a run name is a sequence of characters.       *)
(***************************************************************************)
EXTENDS Integers, Sequences, FiniteSets, TLC

\* ------------------------------------------------------------------------
\* Program constants
\* ------------------------------------------------------------------------
RATE_LIMIT == 2
MaxPromptLength == 1250
MaxFilenameLen == 200
maxRetries == 3
minImageSize == 100000
FailureThreshold == 3
ErrorPause == 5
retryDelay == 5
FailurePause == 10
ServerErrorPause == 5
FallbackScale == 850

\* ------------------------------------------------------------------------
\* Bounds of the model
\* ------------------------------------------------------------------------
\* the image count of the configuration documents
NumImagesCfg == 2
\* generation requests issued in one run
MaxRequests == 4
\* image files written in one run, up to the images of one more response
MaxSaves == 3
\* the wall-clock residue time.Now().UnixNano()%99_999_999 ranges over 0..MaxClock
MaxClock == 1
\* the random draw of generateCfgScale is r/RandSteps, r in 0..RandSteps
RandSteps == 1
\* the runs that are started one after the other
MaxRuns == 3
\* the largest value of the sub-counter of the collision loop
MaxCounter == 4
\* the guidance bounds of a configuration range over -NegScale..MaxScale hundredths
NegScale == 30
MaxScale == 130
\* the run names end in up to MaxTail characters that vary
MaxTail == 3
\* a run that is followed without end is followed while the loop index is
\* not below -IndexFloor
IndexFloor == 3
\* elapsed times saturate here: all that is read of an elapsed time is how
\* far it is below RATE_LIMIT
ClockCap == RATE_LIMIT

\* ------------------------------------------------------------------------
\* Helpers
\* ------------------------------------------------------------------------
RECURSIVE Repeat(_, _)
Repeat(s, n) == IF n = 0 THEN "" ELSE s \o Repeat(s, n - 1)

\* strings.Join(parts, sep)
RECURSIVE Join(_, _)
Join(parts, sep) ==
    IF parts = <<>> THEN ""
    ELSE IF Len(parts) = 1 THEN parts[1]
    ELSE parts[1] \o sep \o Join(Tail(parts), sep)

\* elapsed time e after a further wait of d seconds
Elapse(e, d) == IF e + d > ClockCap THEN ClockCap ELSE e + d

\* math.Round(a/b) for b > 0: nearest integer, halves away from zero
RoundDiv(a, b) ==
    IF a >= 0 THEN (2 * a + b) \div (2 * b)
    ELSE 0 - ((2 * (0 - a) + b) \div (2 * b))

\* getRandomItem: "" for an empty list, else items[index % len]
getRandomItem(items, index) ==
    IF Len(items) = 0 THEN "" ELSE items[(index % Len(items)) + 1]

\* (faulty variant of generateCfgScale: the value is returned as clamped)
generateCfgScaleNoRound(minConfig, maxConfig, r) ==
    LET num      == minConfig * RandSteps + r * (maxConfig - minConfig)
        rounded  == 25 * RoundDiv(num, 25 * RandSteps)
        low      == IF rounded < minConfig THEN minConfig ELSE rounded
        clamped  == IF low > maxConfig THEN maxConfig ELSE low
    IN  IF clamped < 100 THEN FallbackScale ELSE clamped

\* generateCfgScale, bounds in hundredths, the random value is r/RandSteps
generateCfgScale(minConfig, maxConfig, r) ==
    LET num      == minConfig * RandSteps + r * (maxConfig - minConfig)
        \* cfgScale = num/RandSteps hundredths; Round(cfgScale*4)/4
        rounded  == 25 * RoundDiv(num, 25 * RandSteps)
        low      == IF rounded < minConfig THEN minConfig ELSE rounded
        clamped  == IF low > maxConfig THEN maxConfig ELSE low
        atLeast  == IF clamped < 100 THEN FallbackScale ELSE clamped
    IN  25 * RoundDiv(atLeast, 25)

\* the "%.1f" rendering of a guidance value: tenths, ties to the even digit
FormatScale(h) ==
    LET t == h \div 10
        rem == h % 10
    IN  IF rem > 5 \/ (rem = 5 /\ t % 2 = 1) THEN t + 1 ELSE t

\* ------------------------------------------------------------------------
\* Prompt enhancement
\* ------------------------------------------------------------------------
Categories ==
    <<"face", "type", "hair", "eyes", "clothing", "backgrounds", "poses", "accessories">>

\* the element pools of elements.json, fixed for the run
Elements ==
    [face        |-> <<"scar", "constellation markings">>,
     type        |-> <<>>,
     hair        |-> <<>>,
     eyes        |-> <<>>,
     clothing    |-> <<" leather jacket ">>,
     backgrounds |-> <<>>,
     poses       |-> <<>>,
     accessories |-> <<>>]

\* the random indexes of one enhancePrompt call, one per category
Draws ==
    { d \in [DOMAIN Elements -> 0..1] :
        \A c \in DOMAIN Elements : d[c] < (IF Len(Elements[c]) = 0 THEN 1 ELSE Len(Elements[c])) }

\* strings.TrimSpace on the phrases of the pools
TrimSpace(s) ==
    CASE s = " leather jacket " -> "leather jacket"
      [] s = "  "               -> ""
      [] OTHER                  -> s

RECURSIVE randomElementsFrom(_, _, _, _)
randomElementsFrom(k, config, elements, draw) ==
    IF k > Len(Categories) THEN <<>>
    ELSE LET c    == Categories[k]
             item == getRandomItem(elements[c], draw[c])
             rest == randomElementsFrom(k + 1, config, elements, draw)
         IN  IF config.Enable[c] /\ Len(elements[c]) > 0 /\ item # ""
                THEN <<TrimSpace(item)>> \o rest
                ELSE rest

\* enhancePrompt: the full prompt (first result of the function)
enhancePrompt(basePrompt, config, elements, draw) ==
    LET chosen == randomElementsFrom(1, config, elements, draw)
        randomElements == IF config.EnableDirty THEN <<"uncensored">> \o chosen ELSE chosen
    IN  IF Len(randomElements) > 0
           THEN IF Len(basePrompt) > 0
                   THEN basePrompt \o ", " \o Join(randomElements, ", ")
                   ELSE Join(randomElements, ", ")
           ELSE basePrompt

\* ------------------------------------------------------------------------
\* File naming
\* ------------------------------------------------------------------------
Alnum ==
    {"a","b","c","d","e","f","g","h","i","j","k","l","m","n","o","p","q","r","s","t",
     "u","v","w","x","y","z","A","B","C","D","E","F","G","H","I","J","K","L","M","N",
     "O","P","Q","R","S","T","U","V","W","X","Y","Z","0","1","2","3","4","5","6","7",
     "8","9"}

\* the strings.Map callback of cleanPrompt
MapRune(r) == IF r \in Alnum THEN r ELSE "_"

\* strings.Contains(s, "__")
HasDoubleUnderscore(s) ==
    \E k \in 1..(Len(s) - 1) : s[k] = "_" /\ s[k + 1] = "_"

\* strings.ReplaceAll(s, "__", "_"): non-overlapping matches, left to right;
\* what precedes the first match is copied, the match is replaced, and the
\* rest is treated in the same way
RECURSIVE ReplaceAll(_)
ReplaceAll(s) ==
    IF ~HasDoubleUnderscore(s) THEN s
    ELSE LET matches == { k \in 1..(Len(s) - 1) : s[k] = "_" /\ s[k + 1] = "_" }
             first   == CHOOSE k \in matches : \A j \in matches : k <= j
         IN  SubSeq(s, 1, first) \o ReplaceAll(SubSeq(s, first + 2, Len(s)))

RECURSIVE Collapse(_)
Collapse(s) == IF HasDoubleUnderscore(s) THEN Collapse(ReplaceAll(s)) ELSE s

\* strings.Trim(s, "_")
RECURSIVE TrimUnderscores(_)
TrimUnderscores(s) ==
    IF s = <<>> THEN s
    ELSE IF s[1] = "_" THEN TrimUnderscores(Tail(s))
    ELSE IF s[Len(s)] = "_" THEN TrimUnderscores(SubSeq(s, 1, Len(s) - 1))
    ELSE s

\* cleanPrompt: a run name (sequence of characters) to its sanitized form
cleanPrompt(prompt) ==
    LET mapped  == [k \in 1..Len(prompt) |-> MapRune(prompt[k])]
        trimmed == TrimUnderscores(Collapse(mapped))
    IN  IF Len(trimmed) > MaxFilenameLen THEN SubSeq(trimmed, 1, MaxFilenameLen) ELSE trimmed

\* the path of generateFilenameAndLogDetail for sub-counter `counter`
\* ("%s-%d.%d_seed%d_scale%.1f.png" under the output directory)
FilePath(config, payload, iResult, counter) ==
    [dir     |-> config.OutputDir,
     name    |-> IF config.NameAsSubDir THEN "image" ELSE Join(cleanPrompt(config.PromptName), ""),
     imgNum  |-> iResult + 1,
     counter |-> counter,
     seed    |-> payload.Seed,
     scale   |-> FormatScale(payload.CfgScale)]

\* (faulty variant of FreeCounter: the first path is taken whether it exists or not)
FreeCounterNoLoop(config, payload, iResult, files, counter) == counter

\* the collision loop: the first sub-counter from `counter` on whose path does not exist
RECURSIVE FreeCounter(_, _, _, _, _)
FreeCounter(config, payload, iResult, files, counter) ==
    IF FilePath(config, payload, iResult, counter) \notin DOMAIN files
       THEN counter
       ELSE FreeCounter(config, payload, iResult, files, counter + 1)

\* generateFilenameAndLogDetail: the path returned for the image
generateFilename(config, payload, iResult, files) ==
    FilePath(config, payload, iResult, FreeCounter(config, payload, iResult, files, 0))

\* ------------------------------------------------------------------------
\* Configuration documents (~/.venice/prompt.json)
\* ------------------------------------------------------------------------
NoCategory == [c \in DOMAIN Elements |-> FALSE]

\* the template configuration with a short prompt; images go to a per-run subdirectory
DocHacker ==
    [NumImages    |-> NumImagesCfg,
     Prompt       |-> "a modern hacker wearing a hoodie",
     PromptName   |-> <<"H", "i", ",", " ", "x">>,
     NameAsSubDir |-> TRUE,
     OutputDir    |-> "",
     MinConfig    |-> 750,
     MaxConfig    |-> 775,
     Enable       |-> [NoCategory EXCEPT !.clothing = TRUE, !.hair = TRUE],
     EnableDirty  |-> FALSE,
     Width        |-> 1024,
     Height       |-> 1024,
     Steps        |-> 30]

\* a configuration with a 1240 character prompt; images go to the base directory
DocLong ==
    [NumImages    |-> NumImagesCfg,
     Prompt       |-> Repeat("0123456789", 124),
     PromptName   |-> <<"H", "i", ",", " ", "x">>,
     NameAsSubDir |-> FALSE,
     OutputDir    |-> "/out",
     MinConfig    |-> 750,
     MaxConfig    |-> 775,
     Enable       |-> [NoCategory EXCEPT !.face = TRUE],
     EnableDirty  |-> FALSE,
     Width        |-> 1024,
     Height       |-> 1024,
     Steps        |-> 30]

\* a configuration that asks for a per-run subdirectory but gives no run name
DocNameless ==
    [DocHacker EXCEPT !.PromptName = <<>>, !.OutputDir = "/out"]

\* a configuration that gives no width, height and step count
DocUnset == [DocLong EXCEPT !.Width = 0, !.Height = 0, !.Steps = 0]

\* a configuration with a negative width and more steps than the service takes
DocExcess == [DocLong EXCEPT !.Width = -1, !.Steps = 51]

\* the documents whose width, height or step count is out of range
OffDocs == {"unset", "excess"}

\* the documents that parse, by name
Docs == {"hacker", "long", "nameless"} \cup OffDocs

\* json.Unmarshal of a document that parses
ParseDoc(d) ==
    IF d = "hacker" THEN DocHacker
    ELSE IF d = "nameless" THEN DocNameless
    ELSE IF d = "unset" THEN DocUnset
    ELSE IF d = "excess" THEN DocExcess
    ELSE DocLong

\* (faulty variant of initializeVeniceConfig: the document is taken as it is)
initializeVeniceConfigAsIs(doc) == doc

\* initializeVeniceConfig: the defaults set on the parsed document
initializeVeniceConfig(doc) ==
    [doc EXCEPT !.Width  = IF @ <= 0 THEN 1280 ELSE @,
                !.Height = IF @ <= 0 THEN 1280 ELSE @,
                !.Steps  = IF @ <= 5 THEN 5 ELSE IF @ > 50 THEN 50 ELSE @]

\* the payload before main builds it
NoPayload ==
    [Prompt |-> "", CfgScale |-> 0, Seed |-> 0, Width |-> 0, Height |-> 0, Steps |-> 0,
     HideWatermark |-> FALSE, ReturnBinary |-> FALSE, SafeMode |-> FALSE]

\* what a read of the document can find; the document is edited while the
\* run is in progress, so successive reads are independent
DocStates == Docs \cup {"unreadable", "unparsable"}

\* getOutputDirectory before os.MkdirAll; stat is the result of os.Stat on
\* <base>/<run name> ("absent", "dir" or "file"), tStamp is time.Now().Unix()
getOutputDirectory(cfg, stat, tStamp) ==
    LET base == IF cfg.OutputDir = "" THEN "~/Pictures/venice" ELSE cfg.OutputDir
        name == Join(cfg.PromptName, "")
    IN  IF cfg.NameAsSubDir /\ cfg.PromptName # <<>>
           THEN [outputDir |-> IF stat = "dir" THEN <<base, name, tStamp>> ELSE <<base, name>>,
                 useSubDir |-> TRUE]
           ELSE [outputDir |-> <<base>>, useSubDir |-> FALSE]

\* ------------------------------------------------------------------------
\* Remote outcomes
\* ------------------------------------------------------------------------
\* an image of a response: whether its base64 text decodes, the number of
\* bytes, the number of bytes that are not zero, and whether
\* http.DetectContentType finds image/png
Undecodable == [b64 |-> FALSE, len |-> 0, nonzero |-> 0, png |-> FALSE]
BlackImage  == [b64 |-> TRUE, len |-> minImageSize, nonzero |-> 0, png |-> FALSE]
EmptyImage  == [b64 |-> TRUE, len |-> 0, nonzero |-> 0, png |-> FALSE]
SmallPng    == [b64 |-> TRUE, len |-> minImageSize - 1, nonzero |-> minImageSize - 1, png |-> TRUE]
SmallOther  == [b64 |-> TRUE, len |-> minImageSize - 1, nonzero |-> 1, png |-> FALSE]
ValidImage  == [b64 |-> TRUE, len |-> minImageSize, nonzero |-> minImageSize, png |-> TRUE]

ImageKinds == {Undecodable, BlackImage, EmptyImage, SmallPng, SmallOther, ValidImage}

\* the image lists a parsed 200 response can carry: none, one of each kind,
\* and several images of which one or none is all zero
ImageLists ==
    {<<>>} \cup { <<img>> : img \in ImageKinds }
           \cup {<<BlackImage, ValidImage>>, <<ValidImage, BlackImage>>, <<ValidImage, ValidImage>>}

\* the outcomes of os.WriteFile for the images of a list (TRUE: written);
\* only an image that reaches os.WriteFile has an outcome to choose
WriteOutcomes(images) ==
    { w \in [1..Len(images) -> BOOLEAN] :
        \A k \in 1..Len(images) : images[k] # ValidImage => w[k] }

StatusCodes == {401, 404, 429, 500, 501, 503}

\* a file left in the output directory by an earlier run
OldImage == [b64 |-> TRUE, len |-> minImageSize + 1, nonzero |-> 1, png |-> TRUE]

NoFiles == [p \in {} |-> ValidImage]

\* os.WriteFile: creates the file or replaces its content
WriteFile(fs, path, img) == (path :> img) @@ fs

NoIndex == 0 - 1000

\* no entry exists under the base directories
NoEntries == [p \in {} |-> "dir"]

\* ------------------------------------------------------------------------
\* The environment of a run
\* ------------------------------------------------------------------------
\* the seconds a request can take before its outcome is known
Durations == 0..ClockCap

\* An environment fixes the sets the inputs of a run are drawn from:
\*   start:   the documents the run can start with
\*   stats:   what os.Stat finds for <base>/<run name> at startup
\*   old:     whether the output directory holds a file of an earlier run
\*   docs:    what the re-read before an iteration can find
\*   codes, lists: the statuses and the image lists of the responses
\*   durs:    the durations of the requests
\*   clock:   the wall-clock residues of the seed
\*   rand:    the random draws of generateCfgScale
\*   faults:  the request counts at which a request can fail (no response, an
\*            unreadable or malformed body, a status other than 200)
\*   disturb: the request counts at which a signal can arrive and at which
\*            initializeVeniceConfig can fail inside displayError
\*   watch:   the observations (history variables) that are recorded
CoreEnv ==
    [start |-> {"long"}, stats |-> {"absent"}, old |-> {FALSE},
     docs |-> DocStates \ ({"hacker", "nameless"} \cup OffDocs),
     codes |-> StatusCodes, lists |-> ImageLists, durs |-> {ClockCap}, clock |-> {0},
     rand |-> {0}, faults |-> 0..MaxRequests, disturb |-> {1}, watch |-> {},
     endless |-> FALSE]

Watching(e, names) == [e EXCEPT !.watch = names]

\* the responses that move the loop index: rate limiting, all-zero buffers,
\* empty lists and images that are stored
IndexEnv ==
    [CoreEnv EXCEPT !.codes = {429}, !.docs = {"long", "unparsable"},
                    !.lists = {<<>>, <<BlackImage>>, <<ValidImage>>,
                               <<BlackImage, ValidImage>>, <<ValidImage, BlackImage>>}]

\* every successful response carries one image; the guidance values vary
SingleEnv == [CoreEnv EXCEPT !.lists = { <<img>> : img \in ImageKinds }, !.rand = 0..RandSteps]

\* the seeds vary, a response can carry two images, the output directory can
\* hold a file of an earlier run, and only the first request can fail
NamesEnv ==
    [CoreEnv EXCEPT !.clock = 0..MaxClock, !.old = BOOLEAN,
                    !.codes = {429}, !.docs = {"long", "unparsable"}, !.faults = {0},
                    !.lists = {<<ValidImage>>, <<ValidImage, ValidImage>>}]

\* the attempts of a retry loop are recorded; the statuses include a server
\* error the switch on the status names (500) and one it does not name (501)
TrailEnv ==
    [CoreEnv EXCEPT !.codes = {401, 429, 500, 501}, !.docs = {"long", "unparsable"},
                    !.lists = {<<>>, <<BlackImage>>, <<SmallPng>>, <<ValidImage>>}]

\* the run starts with the document that has no run name; the document is
\* edited while the run is in progress
ReloadEnv ==
    [CoreEnv EXCEPT !.start = {"nameless"}, !.docs = {"long", "nameless", "unparsable"},
                    !.codes = {401}, !.lists = {<<>>, <<ValidImage>>}]

\* the requests take any time
TimeEnv ==
    [CoreEnv EXCEPT !.durs = Durations, !.codes = {401, 429},
                    !.lists = {<<>>, <<BlackImage>>, <<SmallPng>>, <<ValidImage>>}]

\* ------------------------------------------------------------------------
\* State
\* ------------------------------------------------------------------------
VARIABLES
    env,           \* the environment of the run
    pc,            \* "loop": at the head of the main loop; "retry": inside handleResponse;
                   \* "done": main returned; "crashed": the process panicked; "killed": os.Exit(1)
    i,             \* the loop index of main
    hi,            \* the parameter i of handleResponse
    retry,         \* the retry counter of handleResponse
    failedCount,
    lastError,
    interrupted,
    config,        \* the configuration snapshot in use
    payload,       \* the GenerateRequest
    outputDir,     \* resolved at startup
    useSubDir,     \* resolved at startup
    files,         \* the output directory: path -> content
    buffered,      \* fragments in wrLog that are not flushed
    sinceCall,     \* seconds since lastCallTime
    sinceReq,      \* seconds since the start of the latest generation request
    nReq,          \* generation requests issued so far
    got401,        \* a request of this run was answered with 401
    got429,        \* a request of the current retry loop was answered with 429
    savedInLoop,   \* the current retry loop persisted an image
    savedCount,    \* image files written so far
    zeroAt,        \* the loop index whose latest response carried an all-zero buffer
    trail,         \* the attempts of the current retry loop, one record per attempt
    blocks,        \* the paths named by the "=====> File: " entries of the run log
    existing,      \* the entries under the base directories: path -> "dir" or "file"
    now,           \* the Unix time in seconds
    started,       \* the output directories of the runs started so far, in order
    at,            \* where a function examined on its own is: "idle", "call", "stat", "done"
    args,          \* its arguments
    ret            \* its local result

vars == <<env, pc, i, hi, retry, failedCount, lastError, interrupted, config, payload,
          outputDir, useSubDir, files, buffered, sinceCall, sinceReq, nReq,
          got401, got429, savedInLoop, savedCount, zeroAt, trail, blocks,
          existing, now, started, at, args, ret>>

\* what the main loop never changes
fixedVars == <<env, outputDir, useSubDir, existing, now, started, at, args, ret>>

histVars == <<got401, got429, savedInLoop, savedCount, zeroAt, trail, blocks>>

\* the state main is in when it reaches its loop (lines 940-1012), in environment e
InitIn(e) ==
    /\ env = e
    /\ \E d \in e.start, stat \in e.stats, r \in e.rand :
        LET doc  == initializeVeniceConfig(ParseDoc(d))
            dirs == getOutputDirectory(doc, stat, 0)
            cfg  == [doc EXCEPT !.OutputDir = dirs.outputDir]
            bootPayload == [Prompt |-> cfg.Prompt, CfgScale |-> 750, Seed |-> 0]
        IN  /\ config = cfg
            /\ outputDir = dirs.outputDir
            /\ useSubDir = dirs.useSubDir
            /\ payload = [Prompt        |-> cfg.Prompt,
                          CfgScale      |-> generateCfgScale(cfg.MinConfig, cfg.MaxConfig, r),
                          Seed          |-> 0,
                          Width         |-> cfg.Width,
                          Height        |-> cfg.Height,
                          Steps         |-> cfg.Steps,
                          HideWatermark |-> TRUE,
                          ReturnBinary  |-> FALSE,
                          SafeMode      |-> FALSE]
            /\ files \in { IF o /\ ~dirs.useSubDir
                                THEN WriteFile(NoFiles, FilePath(cfg, bootPayload, 0, 0), OldImage)
                                ELSE NoFiles : o \in e.old }
    /\ pc = "loop"
    /\ i = 0
    /\ hi = 0
    /\ retry = 0
    /\ failedCount = 0
    /\ lastError = ""
    /\ interrupted = FALSE
    /\ buffered = 0
    /\ sinceCall = ClockCap
    /\ sinceReq = ClockCap
    /\ nReq = 0
    /\ got401 = FALSE
    /\ got429 = FALSE
    /\ savedInLoop = FALSE
    /\ savedCount = 0
    /\ zeroAt = NoIndex
    /\ trail = <<>>
    /\ blocks = {}
    /\ existing = NoEntries
    /\ now = 0
    /\ started = <<>>
    /\ at = "idle"
    /\ args = <<>>
    /\ ret = <<>>

Init == InitIn(CoreEnv)

\* ------------------------------------------------------------------------
\* Error reporting and the run log
\* ------------------------------------------------------------------------
\* bufio.Writer.Flush: nothing stays buffered
Flush(inBuffer) == 0

\* updatePromptLog: writes the fragments, then flushes
updatePromptLog(inBuffer, fragments) == Flush(inBuffer + fragments)

\* The effects of a handler are collected in a context record:
\*   i, failedCount, lastError, files, buffered: the values of the program
\*   crashed: displayError dereferenced the nil configuration (panic)
\*   pause:   seconds slept so far
\*   errs:    completed calls of displayError
\*   saved:   files written;  zero: an all-zero buffer was seen
\*   faults:  errors met (no response, bad status, malformed body, image that
\*            does not decode, all-zero image, undersized image, failed write)
\*   wfail:   failed writes of an image file
\*   blocks:  the paths of the "=====> File: " entries written to the run log
Context(idx) ==
    [i |-> idx, failedCount |-> failedCount, lastError |-> lastError, files |-> files,
     buffered |-> buffered, crashed |-> FALSE, pause |-> 0, errs |-> 0, saved |-> 0,
     zero |-> FALSE, faults |-> 0, wfail |-> 0, blocks |-> {}]

\* an error is met
Fault(st) == [st EXCEPT !.faults = @ + 1]

\* time.Sleep
Sleep(st, d) == IF st.crashed THEN st ELSE [st EXCEPT !.pause = Elapse(@, d)]

\* displayError: sets lastError, calls initializeVeniceConfig for the progress
\* display (loads: it succeeds; config.NumImages panics when it does not),
\* appends the error to the run log and pauses
displayError(st, msg, loads) ==
    IF st.crashed THEN st
    ELSE IF ~loads THEN [st EXCEPT !.lastError = msg, !.crashed = TRUE]
    ELSE [st EXCEPT !.lastError = msg,
                    !.errs = @ + 1,
                    !.buffered = updatePromptLog(@, 2),
                    !.pause = Elapse(@, ErrorPause)]

\* ------------------------------------------------------------------------
\* storeImageResult
\* ------------------------------------------------------------------------
\* (faulty variant of isAllBlack: the flag is never set)
isAllBlackNever(img) == FALSE

\* the isAllBlack scan: no byte differs from zero
isAllBlack(img) == img.nonzero = 0

\* (faulty variant of storeImage: a written file resets the failure counter)
storeImageResetting(st, img, writeOk, cfg, pl, loads) ==
    IF st.crashed THEN st
    ELSE IF ~img.b64 THEN displayError(Fault(st), "Error decoding image data", loads)
    ELSE IF isAllBlack(img)
        THEN LET e == displayError([Fault(st) EXCEPT !.zero = TRUE],
                                   "Generated image was all black, retrying...", loads)
             IN  IF e.crashed THEN e ELSE [e EXCEPT !.i = @ - 1]
    ELSE IF img.len < minImageSize
        THEN LET f == [Fault(st) EXCEPT !.failedCount = @ + 1]
                 e == IF img.png THEN f
                      ELSE displayError(f, "Unexpected file format (expected PNG)", loads)
             IN  IF e.crashed THEN e ELSE [e EXCEPT !.i = @ - 1]
    ELSE LET path   == generateFilename(cfg, pl, st.i, st.files)
             logged == [st EXCEPT !.buffered = updatePromptLog(@, 2),
                                  !.blocks = @ \cup {path}]
         IN  IF writeOk
                THEN [logged EXCEPT !.files = WriteFile(@, path, img),
                                    !.lastError = "",
                                    !.failedCount = 0,
                                    !.saved = @ + 1]
                ELSE displayError([Fault(logged) EXCEPT !.wfail = @ + 1],
                                  "Error saving image", loads)

\* one pass of the loop over result.Images
storeImage(st, img, writeOk, cfg, pl, loads) ==
    IF st.crashed THEN st
    ELSE IF ~img.b64 THEN displayError(Fault(st), "Error decoding image data", loads)
    ELSE IF isAllBlack(img)
        THEN LET e == displayError([Fault(st) EXCEPT !.zero = TRUE],
                                   "Generated image was all black, retrying...", loads)
             IN  IF e.crashed THEN e ELSE [e EXCEPT !.i = @ - 1]
    ELSE IF img.len < minImageSize
        THEN LET f == [Fault(st) EXCEPT !.failedCount = @ + 1]
                 e == IF img.png THEN f
                      ELSE displayError(f, "Unexpected file format (expected PNG)", loads)
             IN  IF e.crashed THEN e ELSE [e EXCEPT !.i = @ - 1]
    ELSE LET path   == generateFilename(cfg, pl, st.i, st.files)
             logged == [st EXCEPT !.buffered = updatePromptLog(@, 2),
                                  !.blocks = @ \cup {path}]
         IN  IF writeOk
                THEN [logged EXCEPT !.files = WriteFile(@, path, img),
                                    !.lastError = "",
                                    !.saved = @ + 1]
                ELSE displayError([Fault(logged) EXCEPT !.wfail = @ + 1],
                                  "Error saving image", loads)

RECURSIVE storeImagesFrom(_, _, _, _, _, _, _)
storeImagesFrom(k, st, images, writeOk, cfg, pl, loads) ==
    IF k > Len(images) THEN st
    ELSE storeImagesFrom(k + 1, storeImage(st, images[k], writeOk[k], cfg, pl, loads),
                         images, writeOk, cfg, pl, loads)

storeImageResult(st, images, writeOk, cfg, pl, loads) ==
    storeImagesFrom(1, st, images, writeOk, cfg, pl, loads)

\* ------------------------------------------------------------------------
\* handleResponse: the outcomes of one attempt
\* ------------------------------------------------------------------------
\* (faulty variant of statusDecrement: the case 429 does not decrement)
statusDecrementNo429(code) ==
    IF code \in {500, 502, 503, 504} THEN 1 ELSE 0

\* the switch on resp.StatusCode: by how much i is decremented
statusDecrement(code) ==
    IF code = 429 THEN 1
    ELSE IF code \in {500, 502, 503, 504} THEN 1
    ELSE 0

\* (faulty variant of onTransportError: the failure is not counted)
onTransportErrorUncounted(st, msg, loads) ==
    LET e == displayError(Fault(st), msg, loads)
    IN  IF e.crashed THEN e
        ELSE Sleep(e, FailurePause)

\* client.Do or io.ReadAll failed
onTransportError(st, msg, loads) ==
    LET e == displayError(Fault(st), msg, loads)
    IN  IF e.crashed THEN e
        ELSE Sleep([e EXCEPT !.failedCount = @ + 1], FailurePause)

\* resp.StatusCode != 200; detail: the error body gives something to display
onBadStatus(st, code, detail, loads) ==
    LET a == IF detail THEN displayError(Fault(st), "API Error", loads) ELSE Fault(st)
        b == IF a.crashed THEN a ELSE [a EXCEPT !.failedCount = @ + 1]
        c == CASE code = 401 ->
                    displayError(b, "Authentication failed - check your API key", loads)
               [] code = 429 ->
                    Sleep(displayError(b, "Rate limit exceeded - waiting longer before retry", loads),
                          RATE_LIMIT * 2)
               [] code \in {500, 502, 503, 504} ->
                    Sleep(displayError(b, "Server error - will retry", loads), ServerErrorPause)
               [] OTHER -> displayError(b, "Unexpected error occurred", loads)
    IN  IF c.crashed THEN c
        ELSE IF code = 401 THEN c
        ELSE Sleep([c EXCEPT !.i = @ - statusDecrement(code)], FailurePause)

\* the 200 body does not parse
onMalformedBody(st, loads) == displayError(Fault(st), "Error parsing API response", loads)

\* what the retry loop does after the attempt
AfterStatus(code) == IF code = 401 THEN "return" ELSE "continue"
AfterStore(st) == IF st.lastError # "" THEN "continue" ELSE "break"

\* ------------------------------------------------------------------------
\* The main loop: from the loop head to the call of handleResponse
\* ------------------------------------------------------------------------
Live == pc \in {"loop", "retry"}

\* the loop condition holds and neither break condition does
Iterating ==
    /\ pc = "loop"
    /\ i < config.NumImages
    /\ ~(interrupted \/ failedCount >= FailureThreshold)

\* a run is followed for MaxRequests requests and MaxSaves written files,
\* or without end: then the requests are no longer counted beyond
\* MaxRequests, and the outcomes are those that keep the index from -IndexFloor on
Observed == (env.endless \/ nReq < MaxRequests) /\ savedCount < MaxSaves

Counted(n) == IF env.endless /\ n > MaxRequests THEN MaxRequests ELSE n
InRange(n) == env.endless => n >= 0 - IndexFloor

\* the rate limiter: the sleep before an iteration with i > 0
rateLimitSleep ==
    IF i > 0 /\ RATE_LIMIT - sinceCall > 0 THEN RATE_LIMIT - sinceCall ELSE 0

\* the state after the block "if i > 0 { ... }" when the document read is d
\* and d is not unparsable: the configuration in use, payload.Prompt and the clocks
afterReload(d, draw) ==
    IF i > 0 /\ d \in Docs
       THEN LET newConfig == [ParseDoc(d) EXCEPT !.OutputDir = outputDir, !.NameAsSubDir = useSubDir]
            IN  [config |-> newConfig,
                 prompt |-> enhancePrompt(newConfig.Prompt, newConfig, Elements, draw),
                 sinceCall |-> 0,
                 sinceReq |-> Elapse(sinceReq, rateLimitSleep)]
       ELSE [config |-> config,
             prompt |-> payload.Prompt,
             sinceCall |-> IF i > 0 THEN 0 ELSE sinceCall,
             sinceReq |-> Elapse(sinceReq, rateLimitSleep)]

\* whether initializeVeniceConfig can succeed and fail inside displayError
LoadOutcomes == IF nReq \in env.disturb THEN BOOLEAN ELSE {TRUE}

\* the documents the block "if i > 0 { ... }" can read without a parse error
\* (nothing is read for i <= 0)
Readable == IF i > 0 THEN env.docs \ {"unparsable"} ELSE {"unreadable"}

\* The process ends (main returns, panics or calls os.Exit): its memory is gone.
\* What stays is the output directory, the run log and what was observed.
Ended(how) ==
    /\ pc' = how
    /\ i' = 0
    /\ hi' = 0
    /\ retry' = 0
    /\ failedCount' = 0
    /\ lastError' = ""
    /\ interrupted' = FALSE
    /\ payload' = NoPayload
    /\ sinceCall' = ClockCap
    /\ sinceReq' = ClockCap
    /\ UNCHANGED <<config, fixedVars>>

\* i < config.NumImages fails: the loop ends, the log is flushed
LoopExit ==
    /\ pc = "loop"
    /\ ~(i < config.NumImages)
    /\ Ended("done")
    /\ buffered' = IF interrupted THEN buffered ELSE Flush(buffered)
    /\ UNCHANGED <<files, nReq, histVars>>

\* interrupted || failedCount >= 3: flush and break
Breaker ==
    /\ pc = "loop"
    /\ i < config.NumImages
    /\ interrupted \/ failedCount >= FailureThreshold
    /\ Ended("done")
    /\ buffered' = Flush(buffered)
    /\ UNCHANGED <<files, nReq, histVars>>

\* the re-read document does not parse: displayError, continue
ReloadParseError ==
    /\ Iterating
    /\ i > 0
    /\ "unparsable" \in env.docs
    /\ \E loads \in LoadOutcomes :
         LET e == displayError(Context(i), "Error parsing updated config", loads)
         IN  /\ buffered' = e.buffered
             /\ IF e.crashed
                   THEN Ended("crashed")
                   ELSE /\ lastError' = e.lastError
                        /\ pc' = "loop"
                        /\ i' = i + 1
                        /\ sinceCall' = Elapse(Elapse(sinceCall, rateLimitSleep), e.pause)
                        /\ sinceReq' = Elapse(Elapse(sinceReq, rateLimitSleep), e.pause)
                        /\ UNCHANGED <<hi, retry, failedCount, interrupted, config, payload,
                                       fixedVars>>
    /\ UNCHANGED <<files, nReq, histVars>>

\* len(payload.Prompt) > MaxPromptLength: displayError, continue
PromptTooLong ==
    /\ Iterating
    /\ \E d \in Readable, draw \in Draws, loads \in LoadOutcomes :
         LET h == afterReload(d, draw)
             e == displayError(Context(i), "Prompt too complex, consider simplifying", loads)
         IN  /\ Len(h.prompt) > MaxPromptLength
             /\ buffered' = e.buffered
             /\ IF e.crashed
                   THEN Ended("crashed")
                   ELSE /\ config' = h.config
                        /\ payload' = [payload EXCEPT !.Prompt = h.prompt]
                        /\ lastError' = e.lastError
                        /\ pc' = "loop"
                        /\ i' = i + 1
                        /\ sinceCall' = Elapse(h.sinceCall, e.pause)
                        /\ sinceReq' = Elapse(h.sinceReq, e.pause)
                        /\ UNCHANGED <<hi, retry, failedCount, interrupted, fixedVars>>
    /\ UNCHANGED <<files, nReq, histVars>>

\* the request is built (seed, guidance value, enhanced prompt) and
\* handleResponse is entered
BuildRequest ==
    /\ Iterating
    /\ Observed
    /\ \E d \in Readable, draw \in Draws, draw2 \in Draws, t \in env.clock, r \in env.rand :
         LET h == afterReload(d, draw)
         IN  /\ ~(Len(h.prompt) > MaxPromptLength)
             /\ config' = h.config
             /\ payload' = [payload EXCEPT
                               !.Prompt   = enhancePrompt(h.config.Prompt, h.config, Elements, draw2),
                               !.CfgScale = generateCfgScale(h.config.MinConfig, h.config.MaxConfig, r),
                               !.Seed     = (t % 99999999) + i]
             /\ sinceCall' = h.sinceCall
             /\ sinceReq' = h.sinceReq
    /\ pc' = "retry"
    /\ hi' = i
    /\ retry' = 0
    /\ got429' = FALSE
    /\ savedInLoop' = FALSE
    /\ trail' = <<>>
    /\ UNCHANGED <<i, failedCount, lastError, interrupted, fixedVars, files, buffered,
                   nReq, got401, savedCount, zeroAt, blocks>>

\* ------------------------------------------------------------------------
\* handleResponse: one pass of the retry loop
\* ------------------------------------------------------------------------
\* before the request: for retry > 0 the "Retrying" report and the retry delay
beforeRequest(loads) ==
    IF retry > 0
       THEN Sleep(displayError(Context(hi), "Retrying request", loads), retryDelay)
       ELSE Context(hi)

\* the "Retrying" report panics: no request is made
RetryPanic ==
    /\ pc = "retry"
    /\ retry < maxRetries
    /\ FALSE \in LoadOutcomes
    /\ beforeRequest(FALSE).crashed
    /\ Ended("crashed")
    /\ UNCHANGED <<files, buffered, nReq, histVars>>

\* the context in which the request is issued
Started == [beforeRequest(TRUE) EXCEPT !.pause = 0]

\* the time from the start of the latest request to the start of the one
\* the retry loop is about to issue
RequestGap == Elapse(sinceReq, beforeRequest(TRUE).pause)

\* (faulty variant of InLoop: the loop goes round once more)
InLoopOnceMore(r) == r < maxRetries + 1

\* the condition of the retry loop: retry < maxRetries
InLoop(r) == r < maxRetries

\* The request is issued, takes dur seconds and leaves the context post;
\* after is what the retry loop does next ("continue", "break", "return");
\* info tells what the response was.
Complete(post, after, dur, info) ==
    LET pre  == beforeRequest(TRUE)
        last == ~InLoop(retry + 1)
        out  == post.crashed
        back == ~out /\ (after # "continue" \/ last)
    IN  /\ InRange(post.i)
        /\ nReq' = Counted(nReq + 1)
        /\ files' = post.files
        /\ buffered' = post.buffered
        /\ IF out
              THEN Ended("crashed")
              ELSE /\ failedCount' = post.failedCount
                   /\ lastError' = post.lastError
                   /\ sinceReq' = Elapse(Elapse(0, dur), post.pause)
                   /\ sinceCall' = Elapse(Elapse(Elapse(sinceCall, pre.pause), dur), post.pause)
                   \* on return the frame of handleResponse is gone
                   /\ hi' = IF back THEN 0 ELSE post.i
                   /\ retry' = IF back THEN 0 ELSE retry + 1
                   /\ pc' = IF back THEN "loop" ELSE "retry"
                   /\ i' = IF back THEN post.i + 1 ELSE i
                   /\ UNCHANGED <<interrupted, config, payload, fixedVars>>
        /\ savedCount' = savedCount + post.saved
        /\ got401' = IF "got401" \in env.watch THEN got401 \/ info.code = 401 ELSE got401
        /\ got429' = IF "got429" \in env.watch THEN got429 \/ info.code = 429 ELSE got429
        /\ savedInLoop' = IF "savedInLoop" \in env.watch
                             THEN savedInLoop \/ post.saved > 0 ELSE savedInLoop
        /\ zeroAt' = IF "zeroAt" \in env.watch
                        THEN (IF post.zero THEN i ELSE NoIndex) ELSE zeroAt
        /\ trail' = IF "trail" \in env.watch
                       THEN Append(trail, [code   |-> info.code,
                                           failed |-> after # "break",
                                           seed   |-> payload.Seed,
                                           faults |-> post.faults,
                                           errs   |-> post.errs - pre.errs,
                                           wfail  |-> post.wfail,
                                           crashed |-> post.crashed])
                       ELSE IF "attempts" \in env.watch THEN Append(trail, [retry |-> retry])
                       ELSE trail
        /\ blocks' = IF "blocks" \in env.watch THEN blocks \cup post.blocks ELSE blocks

CanRequest ==
    /\ pc = "retry"
    /\ InLoop(retry)
    /\ Observed

\* the request can fail
CanFail == CanRequest /\ nReq \in env.faults

\* client.Do fails
AttemptTransportError ==
    /\ CanFail
    /\ \E dur \in env.durs, loads \in LoadOutcomes :
         Complete(onTransportError(Started, "HTTP request failed", loads), "continue", dur,
                  [code |-> 0, parsed |-> FALSE, images |-> 0])

\* io.ReadAll fails
AttemptReadError ==
    /\ CanFail
    /\ \E dur \in env.durs, loads \in LoadOutcomes :
         Complete(onTransportError(Started, "Error reading response", loads), "continue", dur,
                  [code |-> 0, parsed |-> FALSE, images |-> 0])

\* a status other than 200
AttemptBadStatus ==
    /\ CanFail
    /\ \E code \in env.codes, detail \in BOOLEAN, dur \in env.durs, loads \in LoadOutcomes :
         Complete(onBadStatus(Started, code, detail, loads), AfterStatus(code), dur,
                  [code |-> code, parsed |-> FALSE, images |-> 0])

\* status 200 with a body that does not parse
AttemptMalformedBody ==
    /\ CanFail
    /\ \E dur \in env.durs, loads \in LoadOutcomes :
         Complete(onMalformedBody(Started, loads), "continue", dur,
                  [code |-> 200, parsed |-> FALSE, images |-> 0])

\* status 200 with an image list; writeOk[k]: os.WriteFile succeeds for image k
AttemptImages ==
    /\ CanRequest
    /\ \E images \in env.lists, dur \in env.durs, loads \in LoadOutcomes :
       \E writeOk \in WriteOutcomes(images) :
         LET post == storeImageResult(Started, images, writeOk, config, payload, loads)
         IN  Complete(post, AfterStore(post), dur,
                      [code |-> 200, parsed |-> TRUE, images |-> Len(images)])

\* ------------------------------------------------------------------------
\* The signal goroutine
\* ------------------------------------------------------------------------
\* interrupted = true ...
Signal ==
    /\ Live
    /\ ~interrupted
    /\ nReq \in env.disturb
    /\ interrupted' = TRUE
    /\ UNCHANGED <<pc, i, hi, retry, failedCount, lastError, config, payload, fixedVars,
                   files, buffered, sinceCall, sinceReq, nReq, histVars>>

\* ... os.Exit(1)
SignalExit ==
    /\ Live
    /\ interrupted
    /\ Ended("killed")
    /\ UNCHANGED <<files, buffered, nReq, histVars>>

Next ==
    \/ LoopExit
    \/ Breaker
    \/ ReloadParseError
    \/ PromptTooLong
    \/ BuildRequest
    \/ RetryPanic
    \/ AttemptTransportError
    \/ AttemptReadError
    \/ AttemptBadStatus
    \/ AttemptMalformedBody
    \/ AttemptImages
    \/ Signal
    \/ SignalExit

Spec == Init /\ [][Next]_vars

SpecAuth   == InitIn(Watching(CoreEnv, {"got401"})) /\ [][Next]_vars
SpecIndex  == InitIn(Watching(IndexEnv, {"got429", "savedInLoop"})) /\ [][Next]_vars
SpecSingle == InitIn(SingleEnv) /\ [][Next]_vars
SpecZero   == InitIn(Watching(IndexEnv, {"zeroAt"})) /\ [][Next]_vars
SpecNames  == InitIn(NamesEnv) /\ [][Next]_vars
SpecTime   == InitIn(TimeEnv) /\ [][Next]_vars
SpecReload == InitIn(ReloadEnv) /\ [][Next]_vars
SpecTrail  == InitIn(Watching(TrailEnv, {"trail"})) /\ [][Next]_vars
\* the file blocks written to the run log are recorded; the output directory starts empty
SpecLog    == InitIn(Watching(IndexEnv, {"blocks"})) /\ [][Next]_vars
\* every kind of outcome of a request can follow every other; the requests
\* of a retry loop are counted
OutcomesEnv ==
    [CoreEnv EXCEPT !.codes = {401, 429, 500, 501}, !.docs = {"long", "unparsable"},
                    !.lists = {<<>>, <<BlackImage>>, <<SmallPng>>, <<ValidImage>>}]
SpecRetries == InitIn(Watching(OutcomesEnv, {"attempts"})) /\ [][Next]_vars
\* the document read at startup and the documents read before the later
\* iterations can give a width, a height and a step count that are out of range
SizesEnv ==
    [CoreEnv EXCEPT !.start = {"long"} \cup OffDocs,
                    !.docs = {"long", "unparsable"} \cup OffDocs,
                    !.codes = {429}, !.lists = {<<>>, <<ValidImage>>}]
SpecSizes == InitIn(SizesEnv) /\ [][Next]_vars
\* a run followed without end: every failure, every status and every image
\* that is not stored can follow every other; the process takes its steps
EndlessEnv ==
    [CoreEnv EXCEPT !.endless = TRUE,
                    !.lists = {<<>>, <<Undecodable>>, <<BlackImage>>, <<SmallPng>>, <<SmallOther>>}]
SpecEndless == InitIn(EndlessEnv) /\ [][Next]_vars /\ WF_vars(Next)

\* ------------------------------------------------------------------------
\* Startup of successive runs: the resolution of the output directory
\* ------------------------------------------------------------------------
\* the variables of the main loop
loopVars == <<pc, i, hi, retry, failedCount, lastError, interrupted, config, payload,
              files, buffered, sinceCall, sinceReq, nReq, histVars, at, args, ret>>

\* the configurations the runs start with: the same run name, a per-run
\* subdirectory, under the default base directory or under /out
StartConfigs == {DocHacker, [DocHacker EXCEPT !.OutputDir = "/out"]}

\* <base>/<run name>
NamedDir(cfg) == getOutputDirectory(cfg, "absent", 0).outputDir

\* os.Stat
Stat(path) == IF path \in DOMAIN existing THEN existing[path] ELSE "absent"

\* os.MkdirAll succeeds unless the path is a file
MkdirAllOk(path) == Stat(path) # "file"

\* the state before main is entered
NoRun ==
    /\ env = CoreEnv
    /\ pc = "start"
    /\ i = 0
    /\ hi = 0
    /\ retry = 0
    /\ failedCount = 0
    /\ lastError = ""
    /\ interrupted = FALSE
    /\ config = DocHacker
    /\ payload = NoPayload
    /\ outputDir = <<>>
    /\ useSubDir = FALSE
    /\ files = NoFiles
    /\ buffered = 0
    /\ sinceCall = ClockCap
    /\ sinceReq = ClockCap
    /\ nReq = 0
    /\ got401 = FALSE
    /\ got429 = FALSE
    /\ savedInLoop = FALSE
    /\ savedCount = 0
    /\ zeroAt = NoIndex
    /\ trail = <<>>
    /\ blocks = {}
    /\ existing = NoEntries
    /\ now = 0
    /\ started = <<>>

\* no run has started yet
StartupInit ==
    /\ NoRun
    /\ at = "idle"
    /\ args = <<>>
    /\ ret = <<>>

\* a run starts: getOutputDirectory resolves and creates its output directory
StartRun ==
    /\ pc = "start"
    /\ Len(started) < MaxRuns
    /\ \E cfg \in StartConfigs :
         LET dirs == getOutputDirectory(cfg, Stat(NamedDir(cfg)), now)
         IN  /\ MkdirAllOk(dirs.outputDir)
             /\ existing' = (dirs.outputDir :> "dir") @@ existing
             /\ started' = Append(started, dirs.outputDir)
             /\ outputDir' = dirs.outputDir
             /\ useSubDir' = dirs.useSubDir
    /\ UNCHANGED <<env, now, loopVars>>

\* a run starts and os.MkdirAll fails: main reports the error and returns
StartRunFails ==
    /\ pc = "start"
    /\ Len(started) < MaxRuns
    /\ \E cfg \in StartConfigs :
         LET dirs == getOutputDirectory(cfg, Stat(NamedDir(cfg)), now)
         IN  /\ ~MkdirAllOk(dirs.outputDir)
             /\ started' = Append(started, <<>>)
    /\ UNCHANGED <<env, outputDir, useSubDir, existing, now, loopVars>>

\* something else creates a file where a run directory would go
PlaceFile ==
    /\ pc = "start"
    /\ \E cfg \in StartConfigs :
         /\ Stat(NamedDir(cfg)) = "absent"
         /\ existing' = (NamedDir(cfg) :> "file") @@ existing
    /\ UNCHANGED <<env, outputDir, useSubDir, now, started, loopVars>>

\* a second passes
Tick ==
    /\ pc = "start"
    /\ now < MaxClock
    /\ now' = now + 1
    /\ UNCHANGED <<env, outputDir, useSubDir, existing, started, loopVars>>

StartupNext ==
    \/ StartRun
    \/ StartRunFails
    \/ PlaceFile
    \/ Tick

SpecStartup == StartupInit /\ [][StartupNext]_vars

\* ------------------------------------------------------------------------
\* Functions examined on their own
\* ------------------------------------------------------------------------
\* everything but the function under examination
restVars == <<env, pc, i, hi, retry, failedCount, lastError, interrupted, config, payload,
              outputDir, useSubDir, files, buffered, sinceCall, sinceReq, nReq, histVars,
              existing, now, started>>

\* The collision loop of generateFilenameAndLogDetail, one os.Stat per step.
\* args.taken: the sub-counters whose path exists; args.denied: os.Stat on a
\* path of the output directory fails with an error other than not-found
\* (the directory cannot be searched); ret: the local variable counter, an
\* int that wraps around, here after MaxCounter.
CollideInit ==
    /\ NoRun
    /\ at = "stat"
    /\ args \in [taken : SUBSET (0..(MaxCounter - 1)), denied : BOOLEAN]
    /\ ret = 0

\* the outcome of os.Stat(fullFilePath)
StatOutcome ==
    IF args.denied THEN "error"
    ELSE IF ret \in args.taken THEN "present" ELSE "absent"

\* os.IsNotExist(err): break
StatNotExist ==
    /\ at = "stat"
    /\ StatOutcome = "absent"
    /\ at' = "done"
    /\ UNCHANGED <<args, ret, restVars>>

\* any other outcome: counter++ and the loop goes round
StatOther ==
    /\ at = "stat"
    /\ StatOutcome # "absent"
    /\ ret' = (ret + 1) % (MaxCounter + 1)
    /\ UNCHANGED <<at, args, restVars>>

CollideNext ==
    \/ StatNotExist
    \/ StatOther

\* the loop is a sequential program: it takes its next step
SpecCollide == CollideInit /\ [][CollideNext]_vars /\ WF_vars(CollideNext)

\* generateCfgScale called with bounds min <= max and a random draw
ScaleBounds == (0 - NegScale)..MaxScale

ScaleInit ==
    /\ NoRun
    /\ at = "call"
    /\ args \in { a \in [min : ScaleBounds, max : ScaleBounds, r : 0..RandSteps] : a.min <= a.max }
    /\ ret = 0

CallGenerateCfgScale ==
    /\ at = "call"
    /\ ret' = generateCfgScale(args.min, args.max, args.r)
    /\ at' = "done"
    /\ UNCHANGED <<args, restVars>>

ScaleNext == CallGenerateCfgScale

SpecScale == ScaleInit /\ [][ScaleNext]_vars

\* enhancePrompt called with a base prompt, category switches, element pools
\* and random indexes.  The pools are those of Elements, or those with a hair
\* pool that holds an empty phrase.
ElementSets == {Elements, [Elements EXCEPT !.hair = <<"", "braids">>]}

\* the categories that are switched on and off, and those that are drawn from
Switched == {"face", "hair", "clothing", "poses"}
Drawn == {"face", "hair"}

PromptInit ==
    /\ NoRun
    /\ at = "call"
    /\ ret = ""
    /\ \E b \in {"", "a cat"}, dirty \in BOOLEAN, el \in ElementSets,
          e \in { f \in [DOMAIN Elements -> BOOLEAN] : \A c \in DOMAIN Elements \ Switched : ~f[c] },
          d \in { g \in [DOMAIN Elements -> 0..1] : \A c \in DOMAIN Elements \ Drawn : g[c] = 0 } :
         args = [basePrompt |-> b,
                 config     |-> [DocHacker EXCEPT !.Enable = e, !.EnableDirty = dirty],
                 elements   |-> el,
                 draw       |-> d]

CallEnhancePrompt ==
    /\ at = "call"
    /\ ret' = enhancePrompt(args.basePrompt, args.config, args.elements, args.draw)
    /\ at' = "done"
    /\ UNCHANGED <<args, restVars>>

PromptNext == CallEnhancePrompt

SpecPrompt == PromptInit /\ [][PromptNext]_vars

\* cleanPrompt called with a run name: a head of letters, none or about
\* MaxFilenameLen of them, and a tail of letters, underscores and blanks
Heads == {0} \cup ((MaxFilenameLen - MaxTail)..MaxFilenameLen)
Tails == UNION { [1..n -> {"a", "_", " "}] : n \in 0..MaxTail }
Letters(n) == [k \in 1..n |-> "a"]

CleanInit ==
    /\ NoRun
    /\ at = "call"
    /\ args \in { Letters(h) \o t : h \in Heads, t \in Tails }
    /\ ret = <<>>

CallCleanPrompt ==
    /\ at = "call"
    /\ ret' = cleanPrompt(args)
    /\ at' = "done"
    /\ UNCHANGED <<args, restVars>>

CleanNext == CallCleanPrompt

SpecClean == CleanInit /\ [][CleanNext]_vars

\* The startup of main up to the loop, one statement per step.  args: the
\* outcomes the environment holds ready (config: the first call of
\* initializeVeniceConfig succeeds; again: so does the call inside
\* displayError; user, probe, dir: user.Current, checkAPIStatus and
\* getOutputDirectory succeed; log: initPromptLog succeeds, os.Create fails,
\* or the header cannot be written); ret.wrLog: the writer, "nil" or "open".
BootInit ==
    /\ NoRun
    /\ at = "config"
    /\ args \in [config : BOOLEAN, again : BOOLEAN, user : BOOLEAN, probe : BOOLEAN,
                  dir : BOOLEAN, log : {"ok", "nocreate", "nowrite"}]
    /\ ret = [wrLog |-> "nil"]

\* the variables the startup steps leave alone
bootRest == <<env, pc, i, hi, retry, failedCount, interrupted, config, payload,
              outputDir, useSubDir, files, buffered, sinceCall, sinceReq, nReq, histVars,
              existing, now, started>>

\* displayError followed by return, with the writer wr: config.NumImages
\* panics when the configuration does not load, wrLog.WriteString panics on
\* the nil writer
ReportAndReturn(wr) ==
    IF ~args.again \/ wr = "nil" THEN "crashed" ELSE "returned"

\* one statement of the startup: on success main goes on to the statement
\* `then`, on failure it calls displayError, which sets lastError, and returns
Statement(here, ok, then, msg) ==
    /\ at = here
    /\ at' = IF ok THEN then ELSE ReportAndReturn(ret.wrLog)
    /\ lastError' = IF ok THEN lastError ELSE msg
    /\ UNCHANGED <<args, ret, bootRest>>

InitializeConfig == Statement("config", args.config, "user", "Initialization failed")
CurrentUser      == Statement("user", args.user, "probe", "Error getting current user")
CheckAPIStatus   == Statement("probe", args.probe, "dir", "API Status Check Failed")
GetOutputDir     == Statement("dir", args.dir, "log", "Error creating output directory")

\* initPromptLog: os.Create, then wrLog is set and the header is written
InitPromptLog ==
    /\ at = "log"
    /\ ret' = [ret EXCEPT !.wrLog = IF args.log = "nocreate" THEN @ ELSE "open"]
    /\ at' = IF args.log = "ok" THEN "loop" ELSE ReportAndReturn(ret'.wrLog)
    /\ lastError' = IF args.log = "ok" THEN lastError ELSE "Error initializing Prompt Log!"
    /\ UNCHANGED <<args, bootRest>>

BootNext ==
    \/ InitializeConfig
    \/ CurrentUser
    \/ CheckAPIStatus
    \/ GetOutputDir
    \/ InitPromptLog

SpecBoot == BootInit /\ [][BootNext]_vars

\* ------------------------------------------------------------------------
\* Properties
\* ------------------------------------------------------------------------
\* a step that issues a generation request
Requests == nReq' # nReq

\* a step in which handleResponse returns to the main loop
Returns == pc = "retry" /\ pc' = "loop"

\* C1: after a request was answered with 401 no further generation request is
\* issued in the run.
C1_AbortOn401 == [][got401 => ~Requests]_vars

\* C2: once the failure counter has reached 3 no further generation request is
\* issued, and the run log is flushed when the run ends.
C2_NoRequestAfterBreaker ==
    [][(failedCount >= FailureThreshold => ~Requests) /\ (pc' = "done" => buffered' = 0)]_vars

\* C3: when handleResponse returns from a retry loop in which an attempt
\* received 429, the index of the next iteration is not greater than the
\* index of the iteration that received the 429.
C3_429NeverAdvances == [][(Returns /\ got429') => i' <= i]_vars

\* a retry loop that received a 429 and then saved an image has returned
C3_Witness == pc = "loop" /\ got429 /\ savedInLoop /\ i = 0

\* C4: when handleResponse returns from a retry loop that persisted an image,
\* the next iteration runs at the index after the one of that iteration.
C4_SaveAdvancesByOne == [][(Returns /\ savedInLoop') => i' = i + 1]_vars

\* C5: with one image per successful response, the number of image files
\* written in a run never exceeds the configured image count.
C5_SavedAtMostCount == savedCount <= NumImagesCfg

\* C6: no file of the output directory holds a buffer whose every byte is zero.
C6_NoBlackFile == \A p \in DOMAIN files : files[p].nonzero > 0

\* a response carrying an all-zero buffer and a valid image has been stored
C6_Witness == zeroAt # NoIndex /\ savedCount > 0 /\ pc = "loop"

\* C7: the generation request that follows a response carrying an all-zero
\* buffer is issued for the index that response was received at.
C7_ZeroRetriesSameIndex == [][(Requests /\ zeroAt # NoIndex) => i = zeroAt]_vars

\* C8: no step changes or removes an existing file, every save creates a new
\* path, and the sub-counters of the paths that agree in everything else are
\* 0, 1, 2, ... without a gap.
C8_NeverOverwrites ==
    [][/\ \A p \in DOMAIN files : p \in DOMAIN files' /\ files'[p] = files[p]
       /\ Cardinality(DOMAIN files') = Cardinality(DOMAIN files) + (savedCount' - savedCount)
       /\ \A p \in DOMAIN files' :
            p.counter > 0 => [p EXCEPT !.counter = @ - 1] \in DOMAIN files']_vars

\* three files that differ only in the sub-counter, the first one left by an
\* earlier run
C8_Witness ==
    \E p \in DOMAIN files :
        /\ p.counter = 2
        /\ files[[p EXCEPT !.counter = 0]] = OldImage
        /\ savedCount = 2

\* C9: two successive generation requests start at least RATE_LIMIT apart.
C9_MinInterval == [][(Requests /\ nReq > 0) => RequestGap >= RATE_LIMIT]_vars

\* C10: no generation request is issued with a prompt longer than
\* MaxPromptLength.
C10_NoLongPrompt == [][Requests => Len(payload.Prompt) <= MaxPromptLength]_vars

\* the answers the attempts of the retry loop just left have received
Answers == { trail'[k].code : k \in DOMAIN trail' }

\* C11: after a retry loop whose attempts were all answered with a 5xx status,
\* main's next index is not higher than the index of that iteration.
C11_5xxKeepsIndex ==
    [][(Returns /\ trail' # <<>> /\ Answers \subseteq 500..599) => i' <= i]_vars

\* handleResponse returns after maxRetries attempts that all failed
Exhausted ==
    /\ Returns
    /\ Len(trail') = maxRetries
    /\ \A k \in DOMAIN trail' : trail'[k].failed

\* C12: when all attempts of a retry loop failed, main's next index is the
\* index of that iteration plus one and the last failure is counted in failedCount.
C12_ExhaustedMovesOn ==
    [][Exhausted => (i' = i + 1 /\ failedCount' > failedCount)]_vars

\* C13: a signal that arrives while handleResponse is at work (a request is
\* pending or in flight) does not end the process there: the run stops only at
\* the head of the main loop.
C13_StopsAtBoundary ==
    [][(pc = "retry" /\ interrupted) => pc' # "killed"]_vars

\* C14: in every iteration the configuration in use carries the output
\* directory and the subdirectory flag that were resolved at startup.
C14_StartupDirKept ==
    pc = "retry" => (config.OutputDir = outputDir /\ config.NameAsSubDir = useSubDir)

\* a run has just resolved and created its output directory
RunStarts == Len(started') > Len(started) /\ started'[Len(started')] # <<>>

\* C15: with a run name and the subdirectory flag set, the output directory a
\* run resolves did not exist when the run started.
C15_FreshRunDir ==
    [][RunStarts => started'[Len(started')] \notin DOMAIN existing]_vars

\* C16: every error met by an attempt that does not end the process (no
\* response, bad status, malformed body, all-zero image, undersized image,
\* failed write) is reported by a call of displayError, which sets lastError
\* and appends an error line to the run log.
C16_EveryErrorReported ==
    \A k \in DOMAIN trail : ~trail[k].crashed => trail[k].errs >= trail[k].faults

\* an attempt of the iteration under way failed to write an image file
WriteFailed == \E k \in DOMAIN trail : ~trail[k].crashed /\ trail[k].wfail > 0

\* C17: after os.WriteFile failed for an image, the image is dropped: the
\* retry loop of that iteration sends no further request for it.
C17_DroppedNotRetried == [][WriteFailed => ~Requests]_vars

\* C19: every request of an iteration's retry loop carries a seed other than
\* the seeds of the attempts made before it in that loop.
C19_FreshSeedPerAttempt ==
    [][Requests => \A k \in DOMAIN trail : trail[k].seed # payload.Seed]_vars

\* C18: at every point of a run that starts with an empty output directory,
\* the "=====> File: " entries of the run log name exactly the image files
\* that were written.
C18_BlockPerSavedImage == blocks = DOMAIN files

\* C20: in a run that starts with an empty output directory, the ordinal in
\* the name of every image file is at least 1 and at most the configured
\* number of images.
C20_OrdinalOneBased ==
    \A p \in DOMAIN files : 1 <= p.imgNum /\ p.imgNum <= NumImagesCfg

\* C21: the collision loop of generateFilenameAndLogDetail terminates, for
\* every outcome of the existence check and finitely many existing files.
C21_CollisionLoopTerminates == <>(at = "done")

\* C22: for all bounds min <= max and every random draw, the value
\* generateCfgScale returns is an integer multiple of 0.25.
C22_QuarterMultiple == at = "done" => ret % 25 = 0

\* generateCfgScale returned for equal bounds that are no multiple of 0.25
\* and lie above 1.0
C22_Witness == at = "done" /\ args.min = args.max /\ args.min % 25 # 0 /\ args.min > 100

\* C23: for all bounds min <= max and every random draw, the value
\* generateCfgScale returns lies within the bounds, or is the fallback 8.5
\* (which takes bounds that reach below 1.0).
C23_WithinBounds ==
    at = "done" => \/ args.min <= ret /\ ret <= args.max
                   \/ ret = FallbackScale /\ args.min < 100

\* the phrases of the reference composition from category k on: one phrase,
\* the one the random index selects (without the white space around it),
\* from each enabled category with a non-empty pool
RECURSIVE OnePhraseEach(_, _, _, _)
OnePhraseEach(k, cfg, elements, draw) ==
    IF k > Len(Categories) THEN <<>>
    ELSE LET c    == Categories[k]
             rest == OnePhraseEach(k + 1, cfg, elements, draw)
         IN  IF cfg.Enable[c] /\ Len(elements[c]) > 0
                THEN <<TrimSpace(elements[c][(draw[c] % Len(elements[c])) + 1])>> \o rest
                ELSE rest

\* the reference composition of the enhanced prompt
Composition(basePrompt, cfg, elements, draw) ==
    LET each    == OnePhraseEach(1, cfg, elements, draw)
        phrases == IF cfg.EnableDirty THEN <<"uncensored">> \o each ELSE each
    IN  IF phrases = <<>> THEN basePrompt
        ELSE IF basePrompt = "" THEN Join(phrases, ", ")
        ELSE basePrompt \o ", " \o Join(phrases, ", ")

\* C24: for fixed random draws the prompt enhancePrompt returns is the
\* reference composition: one phrase from each enabled category with a
\* non-empty pool, in the fixed order, after the marker "uncensored" when
\* explicit content is enabled, joined with ", " and appended to the base prompt.
C24_ReferenceComposition ==
    at = "done" => ret = Composition(args.basePrompt, args.config, args.elements, args.draw)

\* C25: one entry into the retry loop of handleResponse issues at most 3
\* generation requests, whatever their outcomes.
C25_AtMostThreeAttempts == Len(trail) <= maxRetries

\* a retry loop has issued its third request
C25_Witness == Len(trail) = maxRetries /\ pc = "loop" /\ lastError # ""

\* the attempt that is made receives status 200 and one all-zero image
AttemptZeroImage ==
    /\ CanRequest
    /\ \E dur \in env.durs, loads \in LoadOutcomes :
         LET post == storeImageResult(Started, <<BlackImage>>, <<TRUE>>, config, payload, loads)
         IN  Complete(post, AfterStore(post), dur, [code |-> 200, parsed |-> TRUE, images |-> 1])

\* C26: an attempt that ends in a transport failure or a status other than
\* 200 adds exactly one to failedCount; an attempt that ends in a malformed
\* body or an all-zero image leaves failedCount as it is (the attempts that
\* end the process in a panic aside).
C26_OneCountPerFailure ==
    [][(Requests /\ pc' # "crashed") =>
          /\ (AttemptTransportError \/ AttemptReadError \/ AttemptBadStatus)
                => failedCount' = failedCount + 1
          /\ (AttemptMalformedBody \/ AttemptZeroImage)
                => failedCount' = failedCount]_vars

\* the second attempt of a retry loop received an all-zero image after a
\* first attempt that was counted
C26_Witness ==
    /\ pc = "retry"
    /\ Len(trail) = 2
    /\ failedCount = 1
    /\ lastError = "Generated image was all black, retrying..."

\* C27: every generation request, before and after any number of reloads of
\* the configuration, has width > 0, height > 0, 5 <= steps <= 50,
\* hide_watermark = true, return_binary = false and safe_mode = false.
C27_RequestShape ==
    [][Requests => /\ payload.Width > 0
                   /\ payload.Height > 0
                   /\ 5 <= payload.Steps /\ payload.Steps <= 50
                   /\ payload.HideWatermark
                   /\ ~payload.ReturnBinary
                   /\ ~payload.SafeMode]_vars

\* a request was sent after the reload of a document whose step count is out
\* of range
C27_Witness ==
    /\ pc = "retry"
    /\ retry > 0
    /\ i > 0
    /\ ~(5 <= config.Steps /\ config.Steps <= 50)

\* C28: for every run name, the sanitized name holds only ASCII letters,
\* digits and underscores, no two underscores in a row, no underscore at
\* either end, and at most 200 characters.
C28_SanitizedName ==
    at = "done" =>
        /\ \A k \in DOMAIN ret : ret[k] \in Alnum \cup {"_"}
        /\ ~HasDoubleUnderscore(ret)
        /\ ret # <<>> => (ret[1] # "_" /\ ret[Len(ret)] # "_")
        /\ Len(ret) <= MaxFilenameLen

\* C29: when the document re-read before an iteration with index > 0 does
\* not parse, the error is reported and main goes on to the next index: no
\* request is issued for the current index, the configuration in use and
\* failedCount stay as they are.
C29_ParseErrorSkipsIndex ==
    [][ReloadParseError => /\ pc' = "loop"
                           /\ i' = i + 1
                           /\ lastError' # ""
                           /\ nReq' = nReq
                           /\ config' = config
                           /\ failedCount' = failedCount]_vars

\* C30: for every sequence of remote outcomes the run terminates: main
\* leaves its loop (or the process ends) after finitely many requests.
C30_RunTerminates == <>(~Live)

\* the retry loop is left through its break: a parsed 200 response after
\* which lastError is empty
SuccessExit == AttemptImages /\ Returns /\ lastError' = ""

\* C31: whenever the retry loop is left through its success path, at least
\* one image of that response was written to a file.
C31_SuccessPersists == [][SuccessExit => savedCount' > savedCount]_vars

\* a startup statement failed and displayError was called
StartupReport == at # at' /\ at' \in {"crashed", "returned"}

\* C32: every error report of the startup happens with the run log writer
\* open, and the startup failure paths report their error and return
\* without a panic.
C32_ReportsWithLogOpen ==
    [][StartupReport => (ret'.wrLog = "open" /\ at' = "returned")]_vars

\* C33: while the run goes on no step lowers the failure counter, a written
\* file included, and no iteration is started once the counter has reached
\* the threshold.
C33_CounterNeverDecreases ==
    [][/\ (Live /\ pc' \in {"loop", "retry"}) => failedCount' >= failedCount
       /\ BuildRequest => failedCount < FailureThreshold]_vars

\* two counted failures, then an image written: the counter still holds two
C33_Witness ==
    /\ pc = "loop"
    /\ failedCount = 2
    /\ savedCount >= 1
    /\ lastError = ""

====
